---- MODULE Spec2Model ----
(***************************************************************************)
(* Model of the BGP session manager of tester-service                      *)
(* (tester_service/services/bgp.py, bgp_models.py).                        *)
(*                                                                         *)
(* The manager is a single object driven by an asyncio event loop.  Every  *)
(* action below is one run of a coroutine between two suspension points    *)
(* (await of connect, drain, sleep, read, wait_closed): the event loop     *)
(* never interleaves anything inside such a run.                           *)
(***************************************************************************)
EXTENDS Integers, Sequences, FiniteSets, TLC

(***************************************************************************)
(* Bounds of the model.                                                    *)
(***************************************************************************)
\* number of events that cross the boundary of the manager in one run:
\* external calls (start, stop, update_config, get_connection_status; any
\* number of them may be in flight at the same time), frames delivered to a
\* reader task, KEEPALIVE frames written, and closes or resets by the peer
MaxEvents == 3
\* in the frames generated for the decoder: bytes after the header, and the
\* largest type code
MaxPayload == 3
MaxTypeCode == 6
\* in the model of the log alone: number of messages appended, and the largest
\* limit given to get_message_log
MaxAppends == 1002
MaxLimit == 3

(***************************************************************************)
(* Bytes and Python slicing.                                               *)
(***************************************************************************)
Min(a, b) == IF a < b THEN a ELSE b

\* data[a:b] of Python, 0-based, clamped to the sequence
Slice(s, a, b) == SubSeq(s, a + 1, Min(b, Len(s)))

\* struct.unpack("!H", two bytes)
U16(hi, lo) == hi * 256 + lo

Marker == [i \in 1..16 |-> 255]

HeaderLen == 19

OpenMinLen == 29

LogRetention == 1000

(***************************************************************************)
(* Dotted-quad text, as Python builds and parses it.  A string is a        *)
(* sequence of one-character strings.                                      *)
(***************************************************************************)
DigitChars == <<"0", "1", "2", "3", "4", "5", "6", "7", "8", "9">>

\* str(n) of a byte
StrOfByte(n) ==
    IF n < 10 THEN <<DigitChars[n + 1]>>
    ELSE IF n < 100 THEN <<DigitChars[(n \div 10) + 1], DigitChars[(n % 10) + 1]>>
    ELSE <<DigitChars[(n \div 100) + 1], DigitChars[((n \div 10) % 10) + 1],
           DigitChars[(n % 10) + 1]>>

\* ".".join(map(str, bgp_id))
RECURSIVE JoinDots(_)
JoinDots(bs) ==
    IF bs = <<>> THEN <<>>
    ELSE IF Len(bs) = 1 THEN StrOfByte(bs[1])
    ELSE StrOfByte(bs[1]) \o <<".">> \o JoinDots(Tail(bs))

DigitValue(ch) == CHOOSE d \in 0..9 : DigitChars[d + 1] = ch

\* int(text) of a run of decimal digits
RECURSIVE IntOfDigits(_, _)
IntOfDigits(cs, acc) ==
    IF cs = <<>> THEN acc
    ELSE IntOfDigits(Tail(cs), acc * 10 + DigitValue(cs[1]))

\* ip.split(".") followed by int() of every part
RECURSIVE SplitDots(_, _)
SplitDots(cs, cur) ==
    IF cs = <<>> THEN <<IntOfDigits(cur, 0)>>
    ELSE IF cs[1] = "." THEN <<IntOfDigits(cur, 0)>> \o SplitDots(Tail(cs), <<>>)
    ELSE SplitDots(Tail(cs), Append(cur, cs[1]))

ip_to_bytes(ip) == SplitDots(ip, <<>>)

\* struct.pack("4s", b): exactly four bytes, cut or padded with zero bytes
Pack4s(b) == [i \in 1..4 |-> IF i <= Len(b) THEN b[i] ELSE 0]

(***************************************************************************)
(* Configuration (BGPConfig, defaults from BGP_Settings).                  *)
(***************************************************************************)
DefaultConfig ==
    [as_number |-> 65001, router_id |-> <<"2", ".", "2", ".", "2", ".", "2">>,
     hold_time |-> 180, bgp_version |-> 4, remote_host |-> "frr", remote_port |-> 179]

OtherConfig ==
    [as_number |-> 64512, router_id |-> <<"1", "0", ".", "0", ".", "0", ".", "2", "5", "4">>,
     hold_time |-> 90, bgp_version |-> 4, remote_host |-> "peer2", remote_port |-> 1179]

Configs == {DefaultConfig, OtherConfig}

\* configurations given to the encoder: the extremes of every field that the
\* OPEN frame carries
OpenConfigs ==
    {[as_number |-> a, router_id |-> r, hold_time |-> h, bgp_version |-> 4,
      remote_host |-> "frr", remote_port |-> 179] :
        a \in {1, 255, 256, 65001, 65535},
        h \in {0, 3, 180, 65535},
        r \in {<<"2", ".", "2", ".", "2", ".", "2">>,
                <<"0", ".", "0", ".", "0", ".", "1">>,
                <<"2", "5", "5", ".", "1", "0", ".", "0", ".", "2", "5", "4">>}}

(***************************************************************************)
(* Wire codec: the frames the manager builds.                              *)
(***************************************************************************)
build_open_message(cfg) ==
    LET payload == <<cfg.bgp_version,
                     cfg.as_number \div 256, cfg.as_number % 256,
                     cfg.hold_time \div 256, cfg.hold_time % 256>>
                   \o Pack4s(ip_to_bytes(cfg.router_id)) \o <<0>>
        length == 19 + Len(payload)
    IN  Marker \o <<length \div 256, length % 256, 1>> \o payload

build_keepalive_message == Marker \o <<0, 19, 4>>

(***************************************************************************)
(* Message records (BGPMessage and its subclasses).  cls is the Python     *)
(* class of the record; two more values of cls stand for the two other     *)
(* results a decode can have: "Empty" is the {} returned for a sent frame, *)
(* "Raised" is an exception leaving the function (details holds its text). *)
(* A details value is either a dict or a plain string, as the callers pass *)
(* both.                                                                   *)
(***************************************************************************)
DictDetails(text) == [kind |-> "dict", text |-> text]

StrDetails(text) == [kind |-> "str", text |-> text]

NewMsg(cls, message_type, direction, length, text) ==
    [cls |-> cls, message_type |-> message_type, direction |-> direction,
     length |-> length, details |-> text,
     version |-> 0, as_number |-> 0, hold_time |-> 0, router_id |-> <<>>,
     capabilities |-> <<>>, has_caps |-> FALSE,
     error_code |-> 0, error_subcode |-> 0, data |-> <<>>, raw_data |-> <<>>,
     withdrawn_routes |-> <<>>, path_attributes |-> <<>>, nlri |-> <<>>]

EmptyMsg == NewMsg("Empty", "", "", 0, "")

Raise(text) == NewMsg("Raised", "", "", 0, text)

\* BGPMessage.details is declared Dict[str, Any]: the constructor of every
\* message class rejects a details value that is not a dict
BGPMessage(cls, message_type, direction, length, details) ==
    IF details.kind = "dict"
    THEN NewMsg(cls, message_type, direction, length, details.text)
    ELSE Raise("ValidationError: details is not a dict")

BGPUnknownMessage(message_type, direction, length, raw_data, details) ==
    LET m == BGPMessage("Unknown", message_type, direction, length, details)
    IN  IF m.cls = "Raised" THEN m ELSE [m EXCEPT !.raw_data = raw_data]

BGPKeepaliveMessage(direction, length, details) ==
    BGPMessage("Keepalive", "KEEPALIVE", direction, length, details)

BGPNotificationMessage(direction, length, details, error_code, error_subcode, data) ==
    LET m == BGPMessage("Notification", "NOTIFICATION", direction, length, details)
    IN  IF m.cls = "Raised" THEN m
        ELSE [m EXCEPT !.error_code = error_code, !.error_subcode = error_subcode,
                       !.data = data]

\* path_attributes is declared Dict[str, Any]: a list is rejected
BGPUpdateMessage(direction, length, details, withdrawn_routes, path_attributes, nlri) ==
    LET m == BGPMessage("Update", "UPDATE", direction, length, details)
    IN  IF m.cls = "Raised" THEN m
        ELSE IF path_attributes.kind # "dict"
        THEN Raise("ValidationError: path_attributes is not a dict")
        ELSE [m EXCEPT !.withdrawn_routes = withdrawn_routes,
                       !.path_attributes = path_attributes.items, !.nlri = nlri]

\* capabilities is declared List[BGPCapability] (not Optional): None is rejected
BGPOpenMessage(direction, length, version, as_number, hold_time, router_id, capabilities, capsIsNone) ==
    IF capsIsNone
    THEN Raise("ValidationError: capabilities is None")
    ELSE [NewMsg("Open", "OPEN", direction, length, "") EXCEPT
             !.version = version, !.as_number = as_number, !.hold_time = hold_time,
             !.router_id = router_id, !.capabilities = capabilities,
             !.has_caps = TRUE]

\* bytes.hex() stored into a bytes field: the ASCII codes of the hex digits
HexDigitCode(d) == IF d < 10 THEN 48 + d ELSE 87 + d

RECURSIVE HexBytes(_)
HexBytes(bs) ==
    IF bs = <<>> THEN <<>>
    ELSE <<HexDigitCode(bs[1] \div 16), HexDigitCode(bs[1] % 16)>> \o HexBytes(Tail(bs))

(***************************************************************************)
(* Capability decoder (parse_optional_params).                             *)
(***************************************************************************)
BGPCapability(code, length, value) == [code |-> code, length |-> length, value |-> value]

\* the inner loop over one "Capabilities" parameter value, from offset j
RECURSIVE ParseCapabilities(_, _)
ParseCapabilities(param_value, j) ==
    IF j >= Len(param_value) THEN <<>>
    ELSE IF j + 2 > Len(param_value) THEN <<>>
    ELSE LET cap_code  == param_value[j + 1]
             cap_len   == param_value[j + 2]
             cap_value == Slice(param_value, j + 2, j + 2 + cap_len)
         IN  <<BGPCapability(cap_code, cap_len, cap_value)>>
             \o ParseCapabilities(param_value, j + 2 + cap_len)

\* the outer loop over the optional parameters, from offset i
RECURSIVE ParseParams(_, _)
ParseParams(opt_bytes, i) ==
    IF i >= Len(opt_bytes) THEN <<>>
    ELSE IF i + 2 > Len(opt_bytes) THEN <<>>
    ELSE LET param_type  == opt_bytes[i + 1]
             param_len   == opt_bytes[i + 2]
             param_value == Slice(opt_bytes, i + 2, i + 2 + param_len)
         IN  (IF param_type = 2 THEN ParseCapabilities(param_value, 0) ELSE <<>>)
             \o ParseParams(opt_bytes, i + 2 + param_len)

parse_optional_params(opt_bytes) == ParseParams(opt_bytes, 0)

(***************************************************************************)
(* BGPCapability.human_readable.  The result is the string returned, kept  *)
(* as its fixed text, the name it embeds and the numbers it embeds, or the *)
(* exception raised.                                                       *)
(***************************************************************************)
Text(text, name, args) == [raised |-> FALSE, text |-> text, name |-> name, args |-> args]

IndexError == [raised |-> TRUE, text |-> "IndexError", name |-> "", args |-> <<>>]

\* int.from_bytes(bs, "big")
RECURSIVE IntFromBytes(_, _)
IntFromBytes(bs, acc) ==
    IF bs = <<>> THEN acc ELSE IntFromBytes(Tail(bs), acc * 256 + bs[1])

parse_multiprotocol(cap) ==
    IF cap.length < 4 THEN Text("Multiprotocol Extensions (invalid length)", "", <<>>)
    ELSE IF Len(cap.value) < 4 THEN IndexError
    ELSE LET afi      == IntFromBytes(Slice(cap.value, 0, 2), 0)
             safi     == cap.value[4]
             afi_name == IF afi = 1 THEN "IPv4"
                         ELSE IF afi = 2 THEN "IPv6"
                         ELSE IF afi = 25 THEN "L2VPN"
                         ELSE "Unknown AFI"
         IN  Text("Multiprotocol Extensions", afi_name, <<afi, safi>>)

parse_four_octet_asn(cap) ==
    IF cap.length # 4 THEN Text("Four-octet ASN (invalid length)", "", <<>>)
    ELSE Text("Four-octet ASN", "", <<IntFromBytes(cap.value, 0)>>)

parse_graceful_restart(cap) ==
    IF cap.length < 2 THEN Text("Graceful Restart (invalid length)", "", <<>>)
    ELSE IF Len(cap.value) < 1 THEN IndexError
    ELSE Text("Graceful Restart", "", <<(cap.value[1] % 16) * 2>>)

\* the codes of code_map
CapabilityCodes == {1, 2, 3, 4, 5, 64, 65, 67, 70}

human_readable(cap) ==
    IF cap.code = 1 THEN parse_multiprotocol(cap)
    ELSE IF cap.code = 2 THEN Text("Route Refresh Capability", "", <<>>)
    ELSE IF cap.code = 3 THEN Text("Outbound Route Filtering", "", <<>>)
    ELSE IF cap.code = 4 THEN Text("Multiple Routes to a Destination (deprecated)", "", <<>>)
    ELSE IF cap.code = 5 THEN Text("Extended Next Hop Encoding", "", <<>>)
    ELSE IF cap.code = 64 THEN parse_graceful_restart(cap)
    ELSE IF cap.code = 65 THEN parse_four_octet_asn(cap)
    ELSE IF cap.code = 67 THEN Text("Add-path Capability", "", <<>>)
    ELSE IF cap.code = 70 THEN Text("Enhanced Route Refresh", "", <<>>)
    ELSE Text("Unknown capability", "", <<cap.code>> \o cap.value)

(***************************************************************************)
(* Wire codec: decoding.                                                   *)
(***************************************************************************)
decode_open_message(data, direction) ==
    IF Len(data) < OpenMinLen THEN Raise("Too short for BGP OPEN")
    ELSE IF Slice(data, 0, 16) # Marker THEN Raise("Bad marker")
    ELSE IF data[19] # 1 THEN Raise("Not an OPEN message")
    ELSE LET length    == U16(data[17], data[18])
             version   == data[20]
             my_as     == U16(data[21], data[22])
             hold_time == U16(data[23], data[24])
             bgp_id    == Slice(data, 24, 28)
             opt_len   == data[29]
             opts      == IF opt_len > 0 THEN Slice(data, 29, 29 + opt_len) ELSE <<>>
         IN  BGPOpenMessage(direction, length, version, my_as, hold_time,
                            JoinDots(bgp_id),
                            IF opts # <<>> THEN parse_optional_params(opts) ELSE <<>>,
                            opts = <<>>)

decode_keepalive_message(data, direction) ==
    IF Len(data) < HeaderLen
    THEN BGPUnknownMessage("KEEPALIVE", direction, Len(data), data,
                           DictDetails("Message too short for BGP"))
    ELSE IF Slice(data, 0, 16) # Marker
    THEN BGPUnknownMessage("KEEPALIVE", direction, Len(data), data,
                           DictDetails("Invalid marker"))
    ELSE IF U16(data[17], data[18]) # 19
    THEN BGPUnknownMessage("KEEPALIVE", direction, Len(data), data,
                           DictDetails("KEEPALIVE should be 19 bytes"))
    ELSE IF data[19] # 4
    THEN BGPUnknownMessage("KEEPALIVE", direction, Len(data), data,
                           DictDetails("Not a KEEPALIVE"))
    ELSE BGPKeepaliveMessage(direction, Len(data), DictDetails("KEEPALIVE received"))

\* [0] * n
Zeros(n) == [i \in 1..n |-> 0]

\* f"{'.'.join(map(str, prefix_bits))}/{prefix_len}"
RouteString(prefix_bits, prefix_len) == JoinDots(prefix_bits) \o <<"/">> \o StrOfByte(prefix_len)

\* the loop over NLRI-encoded prefixes from offset pos while pos < end;
\* payload[pos] past the end of the payload raises IndexError
RECURSIVE ParsePrefixes(_, _, _)
ParsePrefixes(payload, pos, end) ==
    IF pos >= end THEN [raised |-> FALSE, routes |-> <<>>, pos |-> pos]
    ELSE IF pos >= Len(payload) THEN [raised |-> TRUE, routes |-> <<>>, pos |-> pos]
    ELSE LET prefix_len   == payload[pos + 1]
             prefix_bytes == (prefix_len + 7) \div 8
             prefix       == Slice(payload, pos + 1, pos + 1 + prefix_bytes)
             prefix_bits  == prefix \o Zeros(4 - prefix_bytes)
             rest         == ParsePrefixes(payload, pos + 1 + prefix_bytes, end)
         IN  [raised |-> rest.raised,
              routes |-> <<RouteString(prefix_bits, prefix_len)>> \o rest.routes,
              pos    |-> rest.pos]

\* _decode_path_attribute raises for an ORIGIN without value (value[0]) and
\* for a MED or LOCAL_PREF whose value is not 4 bytes (struct.unpack)
PathAttributeRaises(code, value) ==
    \/ code = 1 /\ value = <<>>
    \/ code \in {4, 5} /\ Len(value) # 4

\* the loop over the path attributes from offset pos while pos < end
RECURSIVE ParseAttributes(_, _, _)
ParseAttributes(payload, pos, end) ==
    IF pos >= end THEN [raised |-> FALSE, attrs |-> <<>>, pos |-> pos]
    ELSE IF pos + 1 >= Len(payload) THEN [raised |-> TRUE, attrs |-> <<>>, pos |-> pos]
    ELSE LET flags    == payload[pos + 1]
             code     == payload[pos + 2]
             extended == (flags \div 16) % 2 = 1
             lenBytes == IF extended THEN Slice(payload, pos + 2, pos + 4)
                         ELSE Slice(payload, pos + 2, pos + 3)
             short    == Len(lenBytes) # (IF extended THEN 2 ELSE 1)
             attr_len == IF short THEN 0
                         ELSE IF extended THEN U16(lenBytes[1], lenBytes[2])
                         ELSE lenBytes[1]
             vpos     == pos + 2 + Len(lenBytes)
             value    == Slice(payload, vpos, vpos + attr_len)
         IN  IF short \/ PathAttributeRaises(code, value)
             THEN [raised |-> TRUE, attrs |-> <<>>, pos |-> pos]
             ELSE LET rest == ParseAttributes(payload, vpos + attr_len, end)
                  IN  [raised |-> rest.raised,
                       attrs  |-> <<[flags |-> flags, code |-> code, length |-> attr_len]>>
                                  \o rest.attrs,
                       pos    |-> rest.pos]

\* the three sections of the UPDATE payload, in order
ParseUpdate(payload) ==
    LET wlen == Slice(payload, 0, 2)
    IN  IF Len(wlen) # 2 THEN [raised |-> TRUE]
        ELSE LET w    == ParsePrefixes(payload, 2, 2 + U16(wlen[1], wlen[2]))
                 alen == Slice(payload, w.pos, w.pos + 2)
             IN  IF w.raised \/ Len(alen) # 2 THEN [raised |-> TRUE]
                 ELSE LET a == ParseAttributes(payload, w.pos + 2,
                                               w.pos + 2 + U16(alen[1], alen[2]))
                      IN  IF a.raised THEN [raised |-> TRUE]
                          ELSE [raised |-> FALSE, withdrawn_routes |-> w.routes,
                                path_attributes |-> a.attrs,
                                nlri |-> ParsePrefixes(payload, a.pos, Len(payload)).routes]

\* Every path of the function ends in its except clause: either the parse of
\* the three sections raises, or the BGPUpdateMessage constructor does,
\* because path_attributes is declared Dict[str, Any] and is given a list.
\* The except clause passes data.hex() as raw_data.
decode_update_message(data, direction) ==
    LET payload == Slice(data, 19, U16(data[17], data[18]))
        failed  == BGPUnknownMessage("UNKNOWN", direction, Len(data), HexBytes(data),
                                     DictDetails("Failed to decode UPDATE"))
        u       == ParseUpdate(payload)
    IN  IF data[19] # 2 \/ u.raised THEN failed
        ELSE LET m == BGPUpdateMessage(direction, Len(data), DictDetails("withdrawn_count"),
                                       u.withdrawn_routes,
                                       [kind |-> "list", items |-> u.path_attributes],
                                       u.nlri)
             IN  IF m.cls = "Raised" THEN failed ELSE m

\* a decoder that leaves the marker to the per-type decoders
parse_bgp_message_NoMarkerCheck(data, direction) ==
    IF direction = "sent" THEN EmptyMsg
    ELSE IF Len(data) < HeaderLen
    THEN BGPUnknownMessage("UNKNOWN", direction, Len(data), data,
                           DictDetails("Too short BGP message"))
    ELSE LET length   == U16(data[17], data[18])
             msg_type == data[19]
             payload  == Slice(data, 19, length)
         IN  IF FALSE
             THEN BGPUnknownMessage("UNKNOWN", direction, Len(data), data,
                                    DictDetails("Invalid marker"))
             ELSE IF msg_type = 1
             THEN LET m == decode_open_message(data, direction)
                  IN  IF m.cls = "Raised"
                      THEN BGPUnknownMessage("UNKNOWN", direction, Len(data), data,
                                             DictDetails("Failed to decode OPEN"))
                      ELSE m
             ELSE IF msg_type = 4
             THEN LET m == decode_keepalive_message(data, direction)
                  IN  IF m.cls = "Raised"
                      THEN BGPUnknownMessage("UNKNOWN", direction, Len(data), data,
                                             StrDetails("Failed to decode KEEPALIVE"))
                      ELSE m
             ELSE IF msg_type = 2
             THEN decode_update_message(data, direction)
             ELSE IF msg_type = 3
             THEN IF Len(Slice(payload, 0, 2)) # 2
                  THEN BGPUnknownMessage("UNKNOWN", direction, Len(data), data,
                                         StrDetails("Failed to decode NOTIFICATION"))
                  ELSE BGPNotificationMessage(direction, Len(data), DictDetails(""),
                                              payload[1], payload[2],
                                              Slice(payload, 2, Len(payload)))
             ELSE BGPUnknownMessage("UNKNOWN", direction, Len(data), data,
                                    StrDetails("UNKNOWN_type"))

parse_bgp_message(data, direction) ==
    IF direction = "sent" THEN EmptyMsg
    ELSE IF Len(data) < HeaderLen
    THEN BGPUnknownMessage("UNKNOWN", direction, Len(data), data,
                           DictDetails("Too short BGP message"))
    ELSE LET length   == U16(data[17], data[18])
             msg_type == data[19]
             payload  == Slice(data, 19, length)
         IN  IF Slice(data, 0, 16) # Marker
             THEN BGPUnknownMessage("UNKNOWN", direction, Len(data), data,
                                    DictDetails("Invalid marker"))
             ELSE IF msg_type = 1
             THEN LET m == decode_open_message(data, direction)
                  IN  IF m.cls = "Raised"
                      THEN BGPUnknownMessage("UNKNOWN", direction, Len(data), data,
                                             DictDetails("Failed to decode OPEN"))
                      ELSE m
             ELSE IF msg_type = 4
             THEN LET m == decode_keepalive_message(data, direction)
                  IN  IF m.cls = "Raised"
                      THEN BGPUnknownMessage("UNKNOWN", direction, Len(data), data,
                                             StrDetails("Failed to decode KEEPALIVE"))
                      ELSE m
             ELSE IF msg_type = 2
             THEN decode_update_message(data, direction)
             ELSE IF msg_type = 3
             THEN IF Len(Slice(payload, 0, 2)) # 2
                  THEN BGPUnknownMessage("UNKNOWN", direction, Len(data), data,
                                         StrDetails("Failed to decode NOTIFICATION"))
                  ELSE BGPNotificationMessage(direction, Len(data), DictDetails(""),
                                              payload[1], payload[2],
                                              Slice(payload, 2, Len(payload)))
             ELSE BGPUnknownMessage("UNKNOWN", direction, Len(data), data,
                                    StrDetails("UNKNOWN_type"))

(***************************************************************************)
(* Message log and statistics (log_message).                               *)
(***************************************************************************)
InitStats ==
    [total_messages_sent |-> 0, total_messages_received |-> 0, open_messages |-> 0,
     keepalive_messages |-> 0, update_messages |-> 0, notification_messages |-> 0]

\* log_message prints the message after the append: BGPMessage.__str__ calls
\* human_details, which for an OPEN calls human_readable of every capability
StrRaises(msg) ==
    /\ msg.cls = "Open"
    /\ \E i \in 1..Len(msg.capabilities) : human_readable(msg.capabilities[i]).raised

\* the list after log_message(msg); when the print raises the list is left
\* as appended
LogAfter(log, msg) ==
    IF msg.cls = "Empty" THEN log
    ELSE LET appended == Append(log, msg)
         IN  IF StrRaises(msg) THEN appended
             ELSE IF Len(appended) > LogRetention
             THEN SubSeq(appended, Len(appended) - LogRetention + 1, Len(appended))
             ELSE appended

\* the counters after log_message(msg); when the print raises they are not
\* reached
StatsAfter(st, msg) ==
    IF msg.cls = "Empty" \/ StrRaises(msg) THEN st
    ELSE LET d == IF msg.direction = "sent"
                  THEN [st EXCEPT !.total_messages_sent = @ + 1]
                  ELSE [st EXCEPT !.total_messages_received = @ + 1]
         IN  IF msg.message_type = "OPEN" THEN [d EXCEPT !.open_messages = @ + 1]
             ELSE IF msg.message_type = "KEEPALIVE" THEN [d EXCEPT !.keepalive_messages = @ + 1]
             ELSE IF msg.message_type = "UPDATE" THEN [d EXCEPT !.update_messages = @ + 1]
             ELSE IF msg.message_type = "NOTIFICATION"
                  THEN [d EXCEPT !.notification_messages = @ + 1]
             ELSE d

(***************************************************************************)
(* Frames the peer sends in the session model.                             *)
(***************************************************************************)
KeepaliveFrame == build_keepalive_message

NotificationFrame == Marker \o <<0, 21, 3, 6, 2>>

\* a header with a type code outside 1..4
UnknownTypeFrame == Marker \o <<0, 19, 5>>

\* a NOTIFICATION with one payload byte
ShortNotificationFrame == Marker \o <<0, 20, 3, 6>>

TooShortFrame == <<255, 255, 255>>

BadMarkerFrame == [i \in 1..16 |-> IF i = 3 THEN 0 ELSE 255] \o <<0, 19, 4>>

\* a KEEPALIVE that declares 20 bytes
BadKeepaliveFrame == Marker \o <<0, 20, 4, 0>>

\* an OPEN without optional parameters, as build_open_message produces it
PeerOpenFrame == build_open_message(OtherConfig)

\* an OPEN that declares 29 bytes and is cut after 24
TruncatedOpenFrame == Marker \o <<0, 29, 1, 4, 252, 0, 0, 90>>

\* an UPDATE with no withdrawn routes, no attributes and no NLRI
UpdateFrame == Marker \o <<0, 23, 2, 0, 0, 0, 0>>

\* an UPDATE whose payload ends inside the withdrawn-routes length
TruncatedUpdateFrame == Marker \o <<0, 20, 2, 0>>

\* an UPDATE frame around the bytes of its three sections
UpdateWith(withdrawn, attributes, nlri) ==
    Marker \o <<0, HeaderLen + 4 + Len(withdrawn) + Len(attributes) + Len(nlri), 2>>
           \o <<0, Len(withdrawn)>> \o withdrawn \o <<0, Len(attributes)>> \o attributes
           \o nlri

\* prefixes on the wire: the length in bits, then the address bytes
WirePrefixes ==
    {<<0>>, <<8, 10>>, <<17, 172, 16, 128>>, <<24, 192, 168, 1>>, <<32, 10, 0, 0, 1>>}

\* a prefix longer than an IPv4 address, and one whose address bytes are not
\* all there
BadWirePrefixes == {<<33, 10, 0, 0, 1, 128>>, <<24, 192, 168>>}

\* one ORIGIN attribute (IGP)
OriginAttribute == <<64, 1, 1, 0>>

\* UPDATE frames with at most one withdrawn prefix and one NLRI prefix, with
\* and without a path attribute
UpdateFrames ==
    {UpdateWith(w, a, n) : w \in WirePrefixes \cup BadWirePrefixes \cup {<<>>},
                           a \in {<<>>, OriginAttribute},
                           n \in WirePrefixes \cup BadWirePrefixes \cup {<<>>}}

\* an OPEN with one optional parameter of type 2 (Capabilities) that holds
\* one capability: code 1 (multiprotocol), length 4, value 0 1 0 1
OpenWithCapsFrame ==
    Marker \o <<0, 37, 1, 4, 252, 0, 0, 90, 10, 0, 0, 254, 8, 2, 6, 1, 4, 0, 1, 0, 1>>

ValidFrames ==
    {KeepaliveFrame, NotificationFrame, PeerOpenFrame, OpenWithCapsFrame, UpdateFrame}

MalformedFrames ==
    {UnknownTypeFrame, ShortNotificationFrame, TooShortFrame, BadMarkerFrame,
     BadKeepaliveFrame, TruncatedOpenFrame, TruncatedUpdateFrame}

\* every prefix of a frame, the empty one included
Prefixes(f) == {Slice(f, 0, k) : k \in 0..Len(f)}

\* a correct marker, every type code, every declared length and every actual
\* payload length up to the bound
GeneratedFrames ==
    {Marker \o <<0, HeaderLen + declared, t>> \o [i \in 1..actual |-> i] :
        t \in 0..MaxTypeCode, declared \in 0..MaxPayload, actual \in 0..MaxPayload}

\* frames of every type with one marker byte changed, at every position
FlippedMarkerFrames ==
    {[f EXCEPT ![i] = b] :
        f \in {KeepaliveFrame, NotificationFrame, PeerOpenFrame, OpenWithCapsFrame,
                UpdateFrame, UnknownTypeFrame, ShortNotificationFrame},
        i \in 1..16, b \in {0, 254}}

\* an OPEN frame around the optional-parameter bytes opts
OpenWithOptions(opts) ==
    Marker \o <<0, OpenMinLen + Len(opts), 1, 4, 252, 0, 0, 90, 10, 0, 0, 254, Len(opts)>>
           \o opts

\* optional parameters holding capabilities of the codes human_readable knows
\* and of one it does not know, with and without the right length
CapabilityOptions ==
    {<<2, 6, 65, 4, 0, 1, 0, 1>>,
     <<2, 5, 65, 3, 0, 1, 0>>,
     <<2, 6, 1, 4, 0, 2, 0, 1>>,
     <<2, 4, 1, 2, 0, 1>>,
     <<2, 4, 64, 2, 65, 120>>,
     <<2, 2, 64, 0>>,
     <<2, 2, 2, 0>>,
     <<2, 4, 67, 0, 70, 0>>,
     <<2, 3, 99, 1, 7>>,
     <<1, 2, 65, 4>>}

\* an OPEN cut inside its capability: code 64 declares 2 value bytes and
\* none is present
TruncatedCapabilityFrame == Slice(OpenWithOptions(<<2, 4, 64, 2, 65, 120>>), 0, 33)

\* these frames cut at every length that still passes for an OPEN
CapabilityFrames ==
    UNION {{Slice(OpenWithOptions(opts), 0, k) :
                k \in OpenMinLen..Len(OpenWithOptions(opts))} : opts \in CapabilityOptions}

\* the byte sequences given to the decoder in the decoder model
DecodeInputs ==
    GeneratedFrames
    \cup CapabilityFrames
    \cup UpdateFrames
    \cup FlippedMarkerFrames
    \cup UNION {Prefixes(f) : f \in ValidFrames \cup MalformedFrames}
    \cup {build_open_message(cfg) : cfg \in OpenConfigs}

\* what one read of the reader task can return in the session model
SessionFrames == {KeepaliveFrame, TooShortFrame, UnknownTypeFrame, TruncatedCapabilityFrame}

(***************************************************************************)
(* State of the manager and of its environment.                            *)
(***************************************************************************)
VARIABLES
    connected,          \* connection_status.connected
    config,             \* connection_status.config
    messages_received,  \* connection_status.messages_received
    reader,             \* self.reader: a connection, or 0 for None
    writer,             \* self.writer: a connection, or 0 for None
    keepalive_task,     \* self.keepalive_task: a task, or 0 for None
    connection_task,    \* self.connection_task: a task, or 0 for None
    message_log,        \* self.message_log
    stats,              \* self.stats
    conn,               \* state of every TCP connection (transport and close waiter)
    wire,               \* type bytes of the frames written to every connection
    ka,                 \* the send_keepalives task created with each connection
    rd,                 \* the read_messages task created with each connection
    call,               \* the external calls of the run, in the order they are made
    events,             \* number of events so far (see MaxEvents)
    result,             \* what the step just taken returned to an external caller
    rx,                 \* the bytes the step just taken read from the socket
    decoded,            \* the message the step just taken decoded from them
    eof_seen            \* a read has returned b"" and start() was not called since

vars == <<connected, config, messages_received, reader, writer, keepalive_task,
          connection_task, message_log, stats, conn, wire, ka, rd, call, events, result, rx,
          decoded, eof_seen>>

\* every event may be a start() that opens a connection
Conns == 1..MaxEvents

Calls == 1..MaxEvents

\* a task that does not exist yet
NoTask == [pc |-> "none", cancel |-> FALSE, ref |-> 0]

NewTask == [pc |-> "init", cancel |-> FALSE, ref |-> 0]

DoneTask == [pc |-> "done", cancel |-> FALSE, ref |-> 0]

\* a call not made yet, and a call that has returned or raised
NewCall == [pc |-> "new", ref |-> 0]

DoneCall == [pc |-> "done", ref |-> 0]

NoResult == [op |-> "none", outcome |-> "none"]

\* the value of rx after a step that read nothing (<<>> is an empty read)
NoRead == <<-1>>

\* the step is one more event of the run
CountEvent == events < MaxEvents /\ events' = events + 1

\* the next call to be made is c
Callable(c) ==
    /\ call[c].pc = "new"
    /\ \A b \in Calls : b < c => call[b].pc # "new"

Init ==
    /\ connected = FALSE
    /\ config = DefaultConfig
    /\ messages_received = 0
    /\ reader = 0
    /\ writer = 0
    /\ keepalive_task = 0
    /\ connection_task = 0
    /\ message_log = <<>>
    /\ stats = InitStats
    /\ conn = [n \in Conns |-> "free"]
    /\ wire = [n \in Conns |-> <<>>]
    /\ ka = [n \in Conns |-> NoTask]
    /\ rd = [n \in Conns |-> NoTask]
    /\ call = [c \in Calls |-> NewCall]
    /\ events = 0
    /\ result = NoResult
    /\ rx = NoRead
    /\ decoded = EmptyMsg
    /\ eof_seen = FALSE

(***************************************************************************)
(* asyncio primitives.                                                     *)
(***************************************************************************)
\* StreamWriter.is_closing()
is_closing(n) == conn[n] \in {"closing", "closed", "failed", "abandoned"}

\* transport.close(): starts the close of a transport that is not closing yet
CloseTransport(cs, n) ==
    IF cs[n] \in {"open", "eof"} THEN [cs EXCEPT ![n] = "closing"] ELSE cs

\* Task.cancel(): a request, delivered when the task is scheduled next
CancelTask(tasks, h) ==
    IF h # 0 /\ tasks[h].pc \notin {"none", "done"}
    THEN [tasks EXCEPT ![h].cancel = TRUE]
    ELSE tasks

\* drain() returns while the connection is not lost, and raises once it is
DrainCanReturn(n) == conn[n] \in {"open", "eof", "closing", "abandoned"}

DrainCanRaise(n) == conn[n] \in {"closed", "failed", "abandoned"}

\* StreamReader.read() raises RuntimeError when another coroutine already
\* waits for data on the same stream
OtherWaiter(self, n) ==
    /\ conn[n] = "open"
    /\ \E m \in Conns : m # self /\ rd[m].pc = "read" /\ rd[m].ref = n

(***************************************************************************)
(* stop_connection, run by an external caller (self = 0) or by the reader  *)
(* task self in the finally clause of read_messages.                       *)
(*                                                                         *)
(* The function runs without suspension up to "await wait_closed()".       *)
(* What happens at that await:                                             *)
(*   complete   the close waiter is already done: no suspension, the       *)
(*              handles are cleared;                                       *)
(*   raise      the close waiter holds an exception (connection lost with  *)
(*              an error, or waiter cancelled): the await raises and the   *)
(*              two assignments after it are skipped;                      *)
(*   cancelled  the function runs in the task it has just cancelled: the   *)
(*              task suspends, the pending cancellation cancels the close  *)
(*              waiter and ends the task with CancelledError;              *)
(*   suspend    the caller waits for the connection to be lost.            *)
(***************************************************************************)
StopOutcome(self) ==
    LET w          == writer
        selfCancel == self # 0 /\ connection_task = self
        closed     == IF w # 0 THEN CloseTransport(conn, w) ELSE conn
        kind       == IF w = 0 THEN "complete"
                      ELSE IF closed[w] = "closed" THEN "complete"
                      ELSE IF closed[w] \in {"failed", "abandoned"} THEN "raise"
                      ELSE IF selfCancel THEN "cancelled"
                      ELSE "suspend"
    IN  [kind   |-> kind,
         conn   |-> IF kind = "cancelled" THEN [closed EXCEPT ![w] = "abandoned"] ELSE closed,
         writer |-> IF kind = "complete" THEN 0 ELSE w,
         reader |-> IF kind = "complete" THEN 0 ELSE reader]

stop_connection(self) ==
    LET o         == StopOutcome(self)
        cancelled == CancelTask(rd, connection_task)
    IN  /\ connected' = FALSE
        /\ ka' = CancelTask(ka, keepalive_task)
        /\ keepalive_task' = 0
        /\ connection_task' = 0
        /\ conn' = o.conn
        /\ writer' = o.writer
        /\ reader' = o.reader
        /\ rd' = IF self = 0 THEN cancelled
                 ELSE [cancelled EXCEPT ![self] =
                          IF o.kind = "suspend"
                          THEN [pc |-> "wait_closed", cancel |-> FALSE, ref |-> writer]
                          ELSE DoneTask]

(***************************************************************************)
(* External calls.                                                         *)
(***************************************************************************)
Outcome(op, outcome) == [op |-> op, outcome |-> outcome]

\* a guard that looks at the reader task instead of the connected flag
AlreadyActive_ByTask == connection_task # 0

\* the guard of start_connection
AlreadyActive == connected

\* start_connection up to "await asyncio.open_connection(...)"
StartCall(c) ==
    /\ Callable(c)
    /\ CountEvent
    /\ IF AlreadyActive
       THEN /\ result' = Outcome("start", "AlreadyConnected")
            /\ call' = [call EXCEPT ![c] = DoneCall]
       ELSE /\ result' = NoResult
            /\ call' = [call EXCEPT ![c] = [pc |-> "connect", ref |-> 0]]
    /\ rx' = NoRead
    /\ decoded' = EmptyMsg
    /\ eof_seen' = FALSE
    /\ UNCHANGED <<connected, config, messages_received, reader, writer, keepalive_task,
                   connection_task, message_log, stats, conn, wire, ka, rd>>

\* a start_connection that would suspend between the connect and the write of
\* the OPEN frame
StartConnected_OpenDeferred(c) ==
    /\ call[c].pc = "connect"
    /\ \E n \in Conns :
        /\ conn[n] = "free"
        /\ \A m \in Conns : m < n => conn[m] # "free"
        /\ conn' = [conn EXCEPT ![n] = "open"]
        /\ reader' = n
        /\ writer' = n
        /\ connected' = TRUE
        /\ wire' = wire
        /\ call' = [call EXCEPT ![c] = [pc |-> "drain", ref |-> n]]
    /\ result' = NoResult
    /\ rx' = NoRead
    /\ decoded' = EmptyMsg
    /\ UNCHANGED eof_seen
    /\ UNCHANGED events
    /\ UNCHANGED <<config, messages_received, keepalive_task, connection_task,
                   message_log, stats, ka, rd>>

\* the connect succeeds: start_connection up to "await self.writer.drain()"
StartConnected(c) ==
    /\ call[c].pc = "connect"
    /\ \E n \in Conns :
        /\ conn[n] = "free"
        /\ \A m \in Conns : m < n => conn[m] # "free"
        /\ conn' = [conn EXCEPT ![n] = "open"]
        /\ reader' = n
        /\ writer' = n
        /\ connected' = TRUE
        /\ wire' = [wire EXCEPT ![n] = Append(@, build_open_message(config)[19])]
        /\ call' = [call EXCEPT ![c] = [pc |-> "drain", ref |-> n]]
    /\ result' = NoResult
    /\ rx' = NoRead
    /\ decoded' = EmptyMsg
    /\ UNCHANGED eof_seen
    /\ UNCHANGED events
    /\ UNCHANGED <<config, messages_received, keepalive_task, connection_task,
                   message_log, stats, ka, rd>>

\* an except clause of start_connection that would try the connect again
StartFailed_Retries(c) ==
    /\ connected' = FALSE
    /\ result' = NoResult
    /\ call' = [call EXCEPT ![c] = [pc |-> "connect", ref |-> 0]]
    /\ rx' = NoRead
    /\ decoded' = EmptyMsg
    /\ UNCHANGED eof_seen
    /\ UNCHANGED events
    /\ UNCHANGED <<config, messages_received, reader, writer, keepalive_task,
                   connection_task, message_log, stats, conn, wire, ka, rd>>

\* the except clause of start_connection
StartFailed(c) ==
    /\ connected' = FALSE
    /\ result' = Outcome("start", "ConnectionFailed")
    /\ call' = [call EXCEPT ![c] = DoneCall]
    /\ rx' = NoRead
    /\ decoded' = EmptyMsg
    /\ UNCHANGED eof_seen
    /\ UNCHANGED events
    /\ UNCHANGED <<config, messages_received, reader, writer, keepalive_task,
                   connection_task, message_log, stats, conn, wire, ka, rd>>

\* the connect fails
StartConnectFailed(c) ==
    /\ call[c].pc = "connect"
    /\ StartFailed(c)

\* the drain of the OPEN frame fails
StartDrainFailed(c) ==
    /\ call[c].pc = "drain"
    /\ DrainCanRaise(call[c].ref)
    /\ StartFailed(c)

\* the drain returns: the OPEN is logged and the two tasks are created
StartDrained(c) ==
    /\ call[c].pc = "drain"
    /\ DrainCanReturn(call[c].ref)
    /\ LET sent == parse_bgp_message(build_open_message(config), "sent")
           n    == call[c].ref
       IN  /\ message_log' = LogAfter(message_log, sent)
           /\ stats' = StatsAfter(stats, sent)
           /\ ka' = [ka EXCEPT ![n] = NewTask]
           /\ rd' = [rd EXCEPT ![n] = NewTask]
           /\ keepalive_task' = n
           /\ connection_task' = n
    /\ result' = Outcome("start", "connected")
    /\ call' = [call EXCEPT ![c] = DoneCall]
    /\ rx' = NoRead
    /\ decoded' = EmptyMsg
    /\ UNCHANGED eof_seen
    /\ UNCHANGED events
    /\ UNCHANGED <<connected, config, messages_received, reader, writer, conn, wire>>

\* stop_connection called from outside, up to "await wait_closed()"
StopCall(c) ==
    /\ Callable(c)
    /\ stop_connection(0)
    /\ LET o == StopOutcome(0)
       IN  IF o.kind = "suspend"
           THEN /\ call' = [call EXCEPT ![c] = [pc |-> "wait_closed", ref |-> writer]]
                /\ result' = NoResult
           ELSE /\ call' = [call EXCEPT ![c] = DoneCall]
                /\ result' = Outcome("stop", IF o.kind = "complete" THEN "stopped"
                                                                    ELSE "raised")
    /\ rx' = NoRead
    /\ decoded' = EmptyMsg
    /\ UNCHANGED eof_seen
    /\ CountEvent
    /\ UNCHANGED <<config, messages_received, message_log, stats, wire>>

\* wait_closed() returns: the last two assignments of stop_connection
StopClosed(c) ==
    /\ call[c].pc = "wait_closed"
    /\ conn[call[c].ref] = "closed"
    /\ writer' = 0
    /\ reader' = 0
    /\ result' = Outcome("stop", "stopped")
    /\ call' = [call EXCEPT ![c] = DoneCall]
    /\ rx' = NoRead
    /\ decoded' = EmptyMsg
    /\ UNCHANGED eof_seen
    /\ UNCHANGED events
    /\ UNCHANGED <<connected, config, messages_received, keepalive_task, connection_task,
                   message_log, stats, conn, wire, ka, rd>>

\* wait_closed() raises: the handles are left as they are
StopRaised(c) ==
    /\ call[c].pc = "wait_closed"
    /\ conn[call[c].ref] \in {"failed", "abandoned"}
    /\ result' = Outcome("stop", "raised")
    /\ call' = [call EXCEPT ![c] = DoneCall]
    /\ rx' = NoRead
    /\ decoded' = EmptyMsg
    /\ UNCHANGED eof_seen
    /\ UNCHANGED events
    /\ UNCHANGED <<connected, config, messages_received, reader, writer, keepalive_task,
                   connection_task, message_log, stats, conn, wire, ka, rd>>

\* the guard of update_config
ConfigLocked == connected

UpdateConfig(c, new_config) ==
    /\ Callable(c)
    /\ IF ConfigLocked
       THEN /\ result' = Outcome("update_config", "SessionActive")
            /\ UNCHANGED config
       ELSE /\ config' = new_config
            /\ result' = Outcome("update_config", "updated")
    /\ call' = [call EXCEPT ![c] = DoneCall]
    /\ rx' = NoRead
    /\ decoded' = EmptyMsg
    /\ UNCHANGED eof_seen
    /\ CountEvent
    /\ UNCHANGED <<connected, messages_received, reader, writer, keepalive_task,
                   connection_task, message_log, stats, conn, wire, ka, rd>>

GetConnectionStatus(c) ==
    /\ Callable(c)
    /\ result' = Outcome("get_connection_status",
                         IF connected THEN "connected=true" ELSE "connected=false")
    /\ call' = [call EXCEPT ![c] = DoneCall]
    /\ rx' = NoRead
    /\ decoded' = EmptyMsg
    /\ UNCHANGED eof_seen
    /\ CountEvent
    /\ UNCHANGED <<connected, config, messages_received, reader, writer, keepalive_task,
                   connection_task, message_log, stats, conn, wire, ka, rd>>

(***************************************************************************)
(* The keepalive task (send_keepalives).                                   *)
(***************************************************************************)
\* the loop condition of send_keepalives: sleep again or return
KeepaliveLoop(n) ==
    ka' = [ka EXCEPT ![n] = IF connected /\ writer # 0
                            THEN [pc |-> "sleep", cancel |-> FALSE, ref |-> 0]
                            ELSE DoneTask]

\* first run of the task
KeepaliveStart(n) ==
    /\ ka[n].pc = "init"
    /\ ~ka[n].cancel
    /\ KeepaliveLoop(n)
    /\ result' = NoResult
    /\ rx' = NoRead
    /\ decoded' = EmptyMsg
    /\ UNCHANGED eof_seen
    /\ UNCHANGED events
    /\ UNCHANGED <<connected, config, messages_received, reader, writer, keepalive_task,
                   connection_task, message_log, stats, conn, wire, rd, call>>

\* the sleep is over: write a KEEPALIVE if the writer is usable
KeepaliveWake(n) ==
    /\ ka[n].pc = "sleep"
    /\ ~ka[n].cancel
    /\ IF writer # 0 /\ ~is_closing(writer)
       THEN /\ CountEvent
            /\ wire' = [wire EXCEPT ![writer] = Append(@, build_keepalive_message[19])]
            /\ ka' = [ka EXCEPT ![n] = [pc |-> "drain", cancel |-> FALSE, ref |-> writer]]
       ELSE /\ KeepaliveLoop(n)
            /\ UNCHANGED <<wire, events>>
    /\ result' = NoResult
    /\ rx' = NoRead
    /\ decoded' = EmptyMsg
    /\ UNCHANGED eof_seen
    /\ UNCHANGED <<connected, config, messages_received, reader, writer, keepalive_task,
                   connection_task, message_log, stats, conn, rd, call>>

\* the drain returns: the KEEPALIVE is logged
KeepaliveDrained(n) ==
    /\ ka[n].pc = "drain"
    /\ ~ka[n].cancel
    /\ DrainCanReturn(ka[n].ref)
    /\ LET sent == parse_bgp_message(build_keepalive_message, "sent")
       IN  /\ message_log' = LogAfter(message_log, sent)
           /\ stats' = StatsAfter(stats, sent)
    /\ KeepaliveLoop(n)
    /\ result' = NoResult
    /\ rx' = NoRead
    /\ decoded' = EmptyMsg
    /\ UNCHANGED eof_seen
    /\ UNCHANGED events
    /\ UNCHANGED <<connected, config, messages_received, reader, writer, keepalive_task,
                   connection_task, conn, wire, rd, call>>

\* a keepalive sender whose except clause would also drop the session flag
KeepaliveDrainFailed_TearsDown(n) ==
    /\ ka[n].pc = "drain"
    /\ ~ka[n].cancel
    /\ DrainCanRaise(ka[n].ref)
    /\ ka' = [ka EXCEPT ![n] = DoneTask]
    /\ connected' = FALSE
    /\ result' = NoResult
    /\ rx' = NoRead
    /\ decoded' = EmptyMsg
    /\ UNCHANGED eof_seen
    /\ UNCHANGED events
    /\ UNCHANGED <<config, messages_received, reader, writer, keepalive_task,
                   connection_task, message_log, stats, conn, wire, rd, call>>

\* the drain raises: the except clause leaves the loop
KeepaliveDrainFailed(n) ==
    /\ ka[n].pc = "drain"
    /\ ~ka[n].cancel
    /\ DrainCanRaise(ka[n].ref)
    /\ ka' = [ka EXCEPT ![n] = DoneTask]
    /\ result' = NoResult
    /\ rx' = NoRead
    /\ decoded' = EmptyMsg
    /\ UNCHANGED eof_seen
    /\ UNCHANGED events
    /\ UNCHANGED <<connected, config, messages_received, reader, writer, keepalive_task,
                   connection_task, message_log, stats, conn, wire, rd, call>>

\* CancelledError is delivered: "except Exception" does not catch it
KeepaliveCancelled(n) ==
    /\ ka[n].pc \in {"init", "sleep", "drain"}
    /\ ka[n].cancel
    /\ ka' = [ka EXCEPT ![n] = DoneTask]
    /\ result' = NoResult
    /\ rx' = NoRead
    /\ decoded' = EmptyMsg
    /\ UNCHANGED eof_seen
    /\ UNCHANGED events
    /\ UNCHANGED <<connected, config, messages_received, reader, writer, keepalive_task,
                   connection_task, message_log, stats, conn, wire, rd, call>>

(***************************************************************************)
(* The reader task (read_messages).                                        *)
(***************************************************************************)
\* the loop condition of read_messages and the next read, or the finally
\* clause when the loop ends or the read raises RuntimeError
ReaderLoop(n) ==
    IF connected /\ reader # 0 /\ ~OtherWaiter(n, reader)
    THEN /\ rd' = [rd EXCEPT ![n] = [pc |-> "read", cancel |-> FALSE, ref |-> reader]]
         /\ UNCHANGED <<connected, reader, writer, keepalive_task, connection_task,
                        conn, ka>>
    ELSE stop_connection(n)

\* the event loop runs new tasks in the order of their creation: the
\* keepalive task of a start() has its first run before the reader task
FirstRunInOrder(n) == ka[n].pc # "init"

\* first run of the task
ReaderStart(n) ==
    /\ rd[n].pc = "init"
    /\ ~rd[n].cancel
    /\ FirstRunInOrder(n)
    /\ ReaderLoop(n)
    /\ result' = NoResult
    /\ rx' = NoRead
    /\ decoded' = EmptyMsg
    /\ UNCHANGED eof_seen
    /\ UNCHANGED events
    /\ UNCHANGED <<config, messages_received, message_log, stats, wire, call>>

\* a non-empty read: decode, log, loop; an exception of the decode or of
\* log_message ends the loop and runs the finally clause
ReaderData(n, data) ==
    /\ rd[n].pc = "read"
    /\ ~rd[n].cancel
    /\ conn[rd[n].ref] = "open"
    /\ CountEvent
    /\ messages_received' = messages_received + 1
    /\ LET msg == parse_bgp_message(data, "received")
       IN  IF msg.cls = "Raised"
           THEN /\ stop_connection(n)
                /\ UNCHANGED <<message_log, stats>>
           ELSE /\ message_log' = LogAfter(message_log, msg)
                /\ stats' = StatsAfter(stats, msg)
                /\ IF StrRaises(msg) THEN stop_connection(n) ELSE ReaderLoop(n)
    /\ result' = NoResult
    /\ rx' = data
    /\ decoded' = parse_bgp_message(data, "received")
    /\ UNCHANGED eof_seen
    /\ UNCHANGED <<config, wire, call>>

\* an empty read (end of stream), or a read that raises
ReaderClosed(n) ==
    /\ rd[n].pc = "read"
    /\ ~rd[n].cancel
    /\ conn[rd[n].ref] \in {"eof", "closed", "failed", "abandoned"}
    /\ stop_connection(n)
    /\ result' = NoResult
    /\ IF conn[rd[n].ref] = "failed"
       THEN /\ rx' = NoRead
            /\ UNCHANGED eof_seen
       ELSE /\ rx' = <<>>
            /\ eof_seen' = TRUE
    /\ decoded' = EmptyMsg
    /\ UNCHANGED events
    /\ UNCHANGED <<config, messages_received, message_log, stats, wire, call>>

\* CancelledError is delivered at the read: the finally clause runs.
\* A task cancelled before its first run ends without running anything.
ReaderCancelled(n) ==
    /\ rd[n].cancel
    /\ \/ /\ rd[n].pc = "read"
          /\ stop_connection(n)
       \/ /\ rd[n].pc = "init"
          /\ FirstRunInOrder(n)
          /\ rd' = [rd EXCEPT ![n] = DoneTask]
          /\ UNCHANGED <<connected, reader, writer, keepalive_task, connection_task,
                         conn, ka>>
    /\ result' = NoResult
    /\ rx' = NoRead
    /\ decoded' = EmptyMsg
    /\ UNCHANGED eof_seen
    /\ UNCHANGED events
    /\ UNCHANGED <<config, messages_received, message_log, stats, wire, call>>

\* wait_closed() returns in the task: the last two assignments of stop_connection
ReaderStopClosed(n) ==
    /\ rd[n].pc = "wait_closed"
    /\ conn[rd[n].ref] = "closed"
    /\ writer' = 0
    /\ reader' = 0
    /\ rd' = [rd EXCEPT ![n] = DoneTask]
    /\ result' = NoResult
    /\ rx' = NoRead
    /\ decoded' = EmptyMsg
    /\ UNCHANGED eof_seen
    /\ UNCHANGED events
    /\ UNCHANGED <<connected, config, messages_received, keepalive_task, connection_task,
                   message_log, stats, conn, wire, ka, call>>

\* wait_closed() raises in the task
ReaderStopRaised(n) ==
    /\ rd[n].pc = "wait_closed"
    /\ conn[rd[n].ref] \in {"failed", "abandoned"}
    /\ rd' = [rd EXCEPT ![n] = DoneTask]
    /\ result' = NoResult
    /\ rx' = NoRead
    /\ decoded' = EmptyMsg
    /\ UNCHANGED eof_seen
    /\ UNCHANGED events
    /\ UNCHANGED <<connected, config, messages_received, reader, writer, keepalive_task,
                   connection_task, message_log, stats, conn, wire, ka, call>>

(***************************************************************************)
(* The peer and the network.                                               *)
(***************************************************************************)
\* the peer closes its side: reads return b""
PeerClose(n) ==
    /\ conn[n] = "open"
    /\ conn' = [conn EXCEPT ![n] = "eof"]
    /\ result' = NoResult
    /\ rx' = NoRead
    /\ decoded' = EmptyMsg
    /\ UNCHANGED eof_seen
    /\ CountEvent
    /\ UNCHANGED <<connected, config, messages_received, reader, writer, keepalive_task,
                   connection_task, message_log, stats, wire, ka, rd, call>>

\* the connection is lost with an error
PeerReset(n) ==
    /\ conn[n] \in {"open", "eof"}
    /\ conn' = [conn EXCEPT ![n] = "failed"]
    /\ result' = NoResult
    /\ rx' = NoRead
    /\ decoded' = EmptyMsg
    /\ UNCHANGED eof_seen
    /\ CountEvent
    /\ UNCHANGED <<connected, config, messages_received, reader, writer, keepalive_task,
                   connection_task, message_log, stats, wire, ka, rd, call>>

\* a transport closed by close() has flushed and reports connection_lost(None)
ConnectionLost(n) ==
    /\ conn[n] = "closing"
    /\ conn' = [conn EXCEPT ![n] = "closed"]
    /\ result' = NoResult
    /\ rx' = NoRead
    /\ decoded' = EmptyMsg
    /\ UNCHANGED eof_seen
    /\ UNCHANGED events
    /\ UNCHANGED <<connected, config, messages_received, reader, writer, keepalive_task,
                   connection_task, message_log, stats, wire, ka, rd, call>>

(***************************************************************************)
(* Specification.                                                          *)
(***************************************************************************)
Next ==
    \/ \E c \in Calls : StartCall(c)
    \/ \E c \in Calls : StartConnected(c)
    \/ \E c \in Calls : StartConnectFailed(c)
    \/ \E c \in Calls : StartDrainFailed(c)
    \/ \E c \in Calls : StartDrained(c)
    \/ \E c \in Calls : StopCall(c)
    \/ \E c \in Calls : StopClosed(c)
    \/ \E c \in Calls : StopRaised(c)
    \/ \E c \in Calls : \E new_config \in Configs : UpdateConfig(c, new_config)
    \/ \E c \in Calls : GetConnectionStatus(c)
    \/ \E n \in Conns : KeepaliveStart(n)
    \/ \E n \in Conns : KeepaliveWake(n)
    \/ \E n \in Conns : KeepaliveDrained(n)
    \/ \E n \in Conns : KeepaliveDrainFailed(n)
    \/ \E n \in Conns : KeepaliveCancelled(n)
    \/ \E n \in Conns : ReaderStart(n)
    \/ \E n \in Conns : \E data \in SessionFrames : ReaderData(n, data)
    \/ \E n \in Conns : ReaderClosed(n)
    \/ \E n \in Conns : ReaderCancelled(n)
    \/ \E n \in Conns : ReaderStopClosed(n)
    \/ \E n \in Conns : ReaderStopRaised(n)
    \/ \E n \in Conns : PeerClose(n)
    \/ \E n \in Conns : PeerReset(n)
    \/ \E n \in Conns : ConnectionLost(n)

Spec == Init /\ [][Next]_vars

(***************************************************************************)
(* The decoder alone: parse_bgp_message applied to one received byte       *)
(* sequence and its result logged, the manager being in its initial state. *)
(***************************************************************************)
DecodeInit ==
    /\ connected = FALSE
    /\ config = DefaultConfig
    /\ messages_received = 0
    /\ reader = 0
    /\ writer = 0
    /\ keepalive_task = 0
    /\ connection_task = 0
    /\ message_log = <<>>
    /\ stats = InitStats
    /\ conn = [n \in Conns |-> "free"]
    /\ wire = [n \in Conns |-> <<>>]
    /\ ka = [n \in Conns |-> NoTask]
    /\ rd = [n \in Conns |-> NoTask]
    /\ call = [c \in Calls |-> NewCall]
    /\ events = 0
    /\ result = NoResult
    /\ rx \in DecodeInputs
    /\ decoded = EmptyMsg
    /\ eof_seen = FALSE

\* what read_messages does with the bytes of one read: decode, then log
\* unless the decode raised
Decode ==
    /\ decoded = EmptyMsg
    /\ decoded' = parse_bgp_message(rx, "received")
    /\ IF decoded'.cls = "Raised"
       THEN UNCHANGED <<message_log, stats>>
       ELSE /\ message_log' = LogAfter(message_log, decoded')
            /\ stats' = StatsAfter(stats, decoded')
    /\ UNCHANGED <<connected, config, messages_received, reader, writer, keepalive_task,
                   connection_task, conn, wire, ka, rd, call, events, result, rx,
                   eof_seen>>

\* str() of every capability of the decoded OPEN (BGPCapability.__str__)
HumanizeCapabilities ==
    /\ decoded.cls = "Open"
    /\ result = NoResult
    /\ result' = Outcome("human_readable",
                         [i \in 1..Len(decoded.capabilities) |->
                               human_readable(decoded.capabilities[i])])
    /\ UNCHANGED <<connected, config, messages_received, reader, writer, keepalive_task,
                   connection_task, message_log, stats, conn, wire, ka, rd, call,
                   events, rx, decoded, eof_seen>>

DecodeNext == Decode \/ HumanizeCapabilities

DecodeSpec == DecodeInit /\ [][DecodeNext]_vars

(***************************************************************************)
(* The log alone: log_message and get_message_log applied to the manager   *)
(* in its initial state.  The n-th message appended carries n as its       *)
(* length, so that every entry of the log tells which append made it;      *)
(* events counts the messages appended.                                    *)
(***************************************************************************)
\* keepalives and unknown messages in turn; every seventh message is an
\* OPEN with a truncated capability, as the decoder produces it
LogEntry(n) ==
    IF n % 7 = 0
    THEN [parse_bgp_message(TruncatedCapabilityFrame, "received") EXCEPT !.length = n]
    ELSE IF n % 2 = 1
    THEN BGPKeepaliveMessage("received", n, DictDetails("KEEPALIVE received"))
    ELSE BGPUnknownMessage("UNKNOWN", "received", n, <<>>, DictDetails("Too short BGP message"))

\* message_log[-limit:] if message_log else []
get_message_log(log, limit) ==
    IF log = <<>> THEN <<>>
    ELSE IF limit = 0 THEN log
    ELSE SubSeq(log, Len(log) - Min(limit, Len(log)) + 1, Len(log))

\* log_message(msg) with the next message
LogAppend ==
    /\ events < MaxAppends
    /\ events' = events + 1
    /\ message_log' = LogAfter(message_log, LogEntry(events + 1))
    /\ stats' = StatsAfter(stats, LogEntry(events + 1))
    /\ result' = Outcome("log_message", "appended")
    /\ UNCHANGED <<connected, config, messages_received, reader, writer, keepalive_task,
                   connection_task, conn, wire, ka, rd, call, rx, decoded, eof_seen>>

\* log_message({}): what parse_bgp_message returns for a sent frame
LogSentinel ==
    /\ message_log' = LogAfter(message_log, EmptyMsg)
    /\ stats' = StatsAfter(stats, EmptyMsg)
    /\ result' = Outcome("log_message", "sentinel")
    /\ UNCHANGED <<connected, config, messages_received, reader, writer, keepalive_task,
                   connection_task, conn, wire, ka, rd, call, events, rx, decoded,
                   eof_seen>>

\* get_message_log(limit): the outcome is the list returned
GetMessageLog(limit) ==
    /\ result' = Outcome("get_message_log", [limit |-> limit,
                                              entries |-> get_message_log(message_log, limit)])
    /\ UNCHANGED <<connected, config, messages_received, reader, writer, keepalive_task,
                   connection_task, message_log, stats, conn, wire, ka, rd, call, events,
                   rx, decoded, eof_seen>>

LogNext ==
    \/ LogAppend
    \/ LogSentinel
    \/ \E limit \in 0..MaxLimit : GetMessageLog(limit)

LogSpec == Init /\ [][LogNext]_vars

\* What the event loop guarantees: a task or call that can resume is resumed,
\* a timer fires, a connect, a drain and the close of a transport end one way
\* or the other.  Nothing is assumed about the external callers or the peer.
Fairness ==
    /\ \A c \in Calls :
          /\ WF_vars(StartConnected(c) \/ StartConnectFailed(c))
          /\ WF_vars(StartDrained(c) \/ StartDrainFailed(c))
          /\ WF_vars(StopClosed(c) \/ StopRaised(c))
    /\ \A n \in Conns :
          /\ WF_vars(KeepaliveStart(n))
          /\ WF_vars(KeepaliveWake(n))
          /\ WF_vars(KeepaliveDrained(n) \/ KeepaliveDrainFailed(n))
          /\ WF_vars(KeepaliveCancelled(n))
          /\ WF_vars(ReaderStart(n))
          /\ WF_vars(ReaderClosed(n))
          /\ WF_vars(ReaderCancelled(n))
          /\ WF_vars(ReaderStopClosed(n) \/ ReaderStopRaised(n))
          /\ WF_vars(ConnectionLost(n))

FairSpec == Spec /\ Fairness

(***************************************************************************)
(* States of the session, in the words of the design.                      *)
(***************************************************************************)
\* a start() is suspended in the TCP connect
Connecting == \E c \in Calls : call[c].pc = "connect"

\* a stop_connection is suspended in wait_closed()
Closing ==
    \/ \E c \in Calls : call[c].pc = "wait_closed"
    \/ \E n \in Conns : rd[n].pc = "wait_closed"

Established == connected

Idle == ~Established /\ ~Connecting /\ ~Closing

\* the step is a call of start(): it enters the connect or is rejected
IsStartCall ==
    \E c \in Calls :
        /\ Callable(c)
        /\ \/ call'[c].pc = "connect"
           \/ call'[c].pc = "done" /\ result'.op = "start"

(***************************************************************************)
(* C1: a start() called while the session is Established fails with        *)
(* AlreadyConnected and changes nothing: connected stays true, and the     *)
(* socket handles, the two task handles, the tasks, the connections, the   *)
(* config, the log and the counters are what they were before the call.    *)
(***************************************************************************)
C1_StartWhileEstablished ==
    [][(IsStartCall /\ Established) =>
          /\ result' = Outcome("start", "AlreadyConnected")
          /\ connected'
          /\ UNCHANGED <<config, messages_received, reader, writer, keepalive_task,
                         connection_task, message_log, stats, conn, wire, ka, rd>>]_vars

\* a second start() has just been refused while both tasks of the session run
C1_Witness ==
    /\ result = Outcome("start", "AlreadyConnected")
    /\ connected
    /\ writer # 0 /\ conn[writer] = "open"
    /\ keepalive_task # 0 /\ ka[keepalive_task].pc = "sleep"
    /\ connection_task # 0 /\ rd[connection_task].pc = "read"

(***************************************************************************)
(* C2: once the reader of an Established session has received a           *)
(* zero-length read, the session reaches Idle (connected is false and the  *)
(* keepalive and the reader task are over), and connected stays false      *)
(* until start() is called again.                                          *)
(***************************************************************************)
TasksOver == \A n \in Conns : ka[n].pc \in {"none", "done"} /\ rd[n].pc \in {"none", "done"}

C2_PeerCloseEndsSession ==
    /\ (rx = <<>>) ~> (~connected /\ TasksOver)
    /\ [](eof_seen => ~connected)

(***************************************************************************)
(* C3: every invocation of stop_connection runs to completion and leaves   *)
(* connected false, both task handles cleared and the reader and writer    *)
(* handles cleared, whether an external caller runs it or the reader task  *)
(* does in its finally clause.                                             *)
(***************************************************************************)
\* the step ends the invocation of stop_connection made by reader task n
ReaderStopEnds(n) ==
    /\ rd[n].pc \in {"init", "read", "wait_closed"}
    /\ ~(rd[n].pc = "init" /\ rd[n].cancel)
    /\ rd'[n].pc = "done"

\* what stop_connection leaves behind
Stopped ==
    /\ ~connected
    /\ keepalive_task = 0
    /\ connection_task = 0
    /\ writer = 0
    /\ reader = 0

\* the claim in the case it singles out: the reader task detects the closure
\* (its read returns b"") and runs stop_connection itself
C3_StopCompletes ==
    [][\A n \in Conns : (ReaderStopEnds(n) /\ rx' = <<>>) => Stopped']_vars

(***************************************************************************)
(* C4: in every reachable state, connected = TRUE implies that the session *)
(* holds a writer handle that is not None and that it has not closed.      *)
(***************************************************************************)
\* the writer handle is set and close() was not called on it
WriterLive == writer # 0 /\ conn[writer] \in {"open", "eof", "failed"}

C4_ConnectedHasWriter == connected => WriterLive

(***************************************************************************)
(* C5: in every reachable state, connected = FALSE implies that neither a  *)
(* keepalive task nor a reader task is running.  A task counts as running  *)
(* while it is inside its loop (suspended in sleep, drain or read) and no  *)
(* cancellation is pending for it.                                         *)
(***************************************************************************)
KeepaliveRunning(n) == ka[n].pc \in {"sleep", "drain"} /\ ~ka[n].cancel

ReaderRunning(n) == rd[n].pc = "read" /\ ~rd[n].cancel

C5_DisconnectedHasNoTasks ==
    ~connected => \A n \in Conns : ~KeepaliveRunning(n) /\ ~ReaderRunning(n)

(***************************************************************************)
(* C6: a start() called in any state other than Idle fails with            *)
(* AlreadyConnected and attempts no connect, also while an earlier start() *)
(* is still suspended in the TCP connect.                                  *)
(***************************************************************************)
C6_StartOnlyWhenIdle ==
    [][(IsStartCall /\ ~Idle) =>
          /\ result' = Outcome("start", "AlreadyConnected")
          /\ \A c \in Calls : call'[c].pc = "connect" => call[c].pc = "connect"]_vars

(***************************************************************************)
(* C7: update_config fails with SessionActive and leaves the config as it  *)
(* is in every state other than Idle, and succeeds in Idle.                *)
(***************************************************************************)
C7_UpdateOnlyWhenIdle ==
    [][result'.op = "update_config" =>
          IF Idle
          THEN result'.outcome = "updated"
          ELSE result'.outcome = "SessionActive" /\ config' = config]_vars

(***************************************************************************)
(* C8: a non-empty read of an Established session whose bytes are not a    *)
(* valid message appends one Unknown record to the log and leaves the      *)
(* session Established with the reader still in its loop.                  *)
(***************************************************************************)
\* the step is a non-empty read of reader task n
IsRead(n) == rd[n].pc = "read" /\ rx' # NoRead /\ rx' # <<>> /\ rd'[n] # rd[n]

C8_MalformedReadKeepsSession ==
    [][\A n \in Conns :
          (IsRead(n) /\ rx' \in MalformedFrames /\ Established /\ reader = rd[n].ref) =>
             /\ Len(message_log') = Len(message_log) + 1
             /\ message_log'[Len(message_log')].cls = "Unknown"
             /\ connected'
             /\ rd'[n].pc = "read"]_vars

(***************************************************************************)
(* C9: decode is total on received bytes: it returns a message for every   *)
(* byte sequence and never raises; a frame with a correct header and a     *)
(* type code outside 1..4, and a NOTIFICATION frame with fewer than 2      *)
(* payload bytes, each give an Unknown message that carries a reason.      *)
(***************************************************************************)
HasHeader(data) == Len(data) >= HeaderLen /\ Slice(data, 0, 16) = Marker

UnknownTypeCode(data) == HasHeader(data) /\ data[19] \notin 1..4

ShortNotification(data) ==
    /\ HasHeader(data)
    /\ data[19] = 3
    /\ Len(Slice(data, HeaderLen, U16(data[17], data[18]))) < 2

\* decode has been applied to rx
Decoded == decoded # EmptyMsg

C9_DecodeTotal ==
    Decoded =>
       /\ decoded.cls # "Raised"
       /\ (UnknownTypeCode(rx) \/ ShortNotification(rx)) =>
             decoded.cls = "Unknown" /\ decoded.details # ""

(***************************************************************************)
(* C10: when the TCP connect of a start() fails, the call fails with       *)
(* ConnectionFailed and the session is Idle afterwards: connected is       *)
(* false, no keepalive or reader task exists and no socket handle is held. *)
(***************************************************************************)
\* the step is the failure of the connect of call c
ConnectFails(c) == call[c].pc = "connect" /\ call'[c].pc = "done"

TaskExists(t) == t.pc \notin {"none", "done"}

C10_ConnectFailureLeavesIdle ==
    [][(\E c \in Calls : ConnectFails(c)) =>
          /\ result' = Outcome("start", "ConnectionFailed")
          /\ ~connected'
          /\ \A n \in Conns : ~TaskExists(ka'[n]) /\ ~TaskExists(rd'[n])
          /\ writer' = 0
          /\ reader' = 0]_vars

(***************************************************************************)
(* C11: stop() is idempotent: called when the session is Idle (no call in  *)
(* flight, no task alive) it does not fail and leaves connected, the       *)
(* socket handles, the task handles, the log and the stats unchanged; so a *)
(* second stop() right after a first one leaves the state of the first.    *)
(***************************************************************************)
\* the step is a call of stop(): it suspends in wait_closed() or returns
IsStopCall ==
    \E c \in Calls :
        /\ Callable(c)
        /\ \/ call'[c].pc = "wait_closed"
           \/ call'[c].pc = "done" /\ result'.op = "stop"

NoCallInFlight == \A c \in Calls : call[c].pc \in {"new", "done"}

\* Idle, and nothing of an earlier session is still running
Quiet == Idle /\ NoCallInFlight /\ TasksOver

C11_StopIdempotent ==
    [][(IsStopCall /\ Quiet) =>
          /\ result' = Outcome("stop", "stopped")
          /\ UNCHANGED <<connected, reader, writer, keepalive_task, connection_task,
                         message_log, stats>>]_vars

(***************************************************************************)
(* C12: after any sequence of appends the log holds at most 1000 entries:  *)
(* exactly the last min(n, 1000) of the n messages appended, in the order  *)
(* of their insertion (appends of the sentinel do not count); after 1001   *)
(* appends the entry at index 0 is the message appended second.            *)
(***************************************************************************)
C12_LogKeepsLast ==
    LET n == events
        k == Len(message_log)
    IN  /\ k = Min(n, LogRetention)
        /\ \A i \in 1..k : message_log[i] = LogEntry(n - k + i)
        /\ (n = LogRetention + 1) => message_log[1] = LogEntry(2)

(***************************************************************************)
(* C13: for every log and every limit >= 0 (0 and limits larger than the   *)
(* log included) get_message_log(limit) returns exactly the last           *)
(* min(limit, length of the log) entries in insertion order, newest last,  *)
(* and does not modify the log.                                            *)
(***************************************************************************)
LastEntries(log, k) == [i \in 1..Min(k, Len(log)) |-> log[Len(log) - Min(k, Len(log)) + i]]

C13_GetMessageLogReturnsLast ==
    [][result'.op = "get_message_log" =>
          /\ result'.outcome.entries = LastEntries(message_log, result'.outcome.limit)
          /\ message_log' = message_log]_vars

(***************************************************************************)
(* C14: every frame the session sends is logged: a start() that returns    *)
(* "connected" has appended an OPEN message with direction sent, and a     *)
(* KEEPALIVE written and drained by the keepalive task has appended a      *)
(* KEEPALIVE message with direction sent; each append adds one to the sent *)
(* counter and one to the counter of its type.                             *)
(***************************************************************************)
\* the step appended one sent message of the given type to the log
LoggedSent(message_type) ==
    /\ Len(message_log') = Len(message_log) + 1
    /\ message_log'[Len(message_log')].message_type = message_type
    /\ message_log'[Len(message_log')].direction = "sent"
    /\ stats'.total_messages_sent = stats.total_messages_sent + 1

StartReturnsConnected == result' = Outcome("start", "connected")

\* the keepalive task n comes back from the drain of a KEEPALIVE it wrote
KeepaliveSent(n) == ka[n].pc = "drain" /\ ka'[n].pc = "sleep"

C14_SentFramesLogged ==
    [][/\ StartReturnsConnected =>
             LoggedSent("OPEN") /\ stats'.open_messages = stats.open_messages + 1
       /\ \A n \in Conns :
             KeepaliveSent(n) =>
                LoggedSent("KEEPALIVE")
                /\ stats'.keepalive_messages = stats.keepalive_messages + 1]_vars

(***************************************************************************)
(* C15: for every valid configuration, decoding the OPEN frame encoded     *)
(* from it gives an Open message whose version, AS number, hold time and   *)
(* router ID are those of the configuration.                               *)
(***************************************************************************)
C15_OpenRoundTrip ==
    \A cfg \in OpenConfigs :
        (Decoded /\ rx = build_open_message(cfg)) =>
            /\ decoded.cls = "Open"
            /\ decoded.version = cfg.bgp_version
            /\ decoded.as_number = cfg.as_number
            /\ decoded.hold_time = cfg.hold_time
            /\ decoded.router_id = cfg.router_id

(***************************************************************************)
(* C16: a received type-4 frame is recorded as a Keepalive message only if *)
(* its declared length is exactly 19; with any other declared length it is *)
(* recorded as an Unknown message with a diagnostic reason; the decode     *)
(* does not fault.                                                         *)
(***************************************************************************)
Type4Frame(data) == HasHeader(data) /\ data[19] = 4

DeclaredLength(data) == U16(data[17], data[18])

\* the record says it is a keepalive: by its class, or by the type it carries
\* (the type log_message counts it under)
RecordedAsKeepalive(m) == m.cls = "Keepalive" \/ m.message_type = "KEEPALIVE"

OpenFrame(data) == HasHeader(data) /\ data[19] = 1

\* the frame declares more bytes than the read holds
DeclaresTooMuch(data) ==
    \/ DeclaredLength(data) > Len(data)
    \/ Len(data) >= OpenMinLen /\ OpenMinLen + data[OpenMinLen] > Len(data)

C17_TruncatedOpenRejected ==
    (Decoded /\ OpenFrame(rx) /\ DeclaresTooMuch(rx)) => decoded.cls = "Unknown"

(***************************************************************************)
(* C18: every message in the log carries as its length the byte length of  *)
(* the frame it was derived from, also when the read holds more or fewer   *)
(* bytes than the header declares, and every Unknown message in the log    *)
(* carries a reason.                                                       *)
(***************************************************************************)
C18_LogLengthAndReason ==
    \A i \in 1..Len(message_log) :
        /\ message_log[i].length = Len(rx)
        /\ message_log[i].cls = "Unknown" => message_log[i].details # ""

(***************************************************************************)
(* C19: a write failure in the keepalive sender stops only the keepalive   *)
(* loop: connected stays true, the reader task keeps running and the       *)
(* sender does not close the socket. The session flag is dropped only by   *)
(* the reader's stop_connection, by a stop() call, or by the except clause *)
(* of a start() that fails.                                                *)
(***************************************************************************)
\* the step is the keepalive task of connection n leaving its drain for good
\* while the session is up (a drain that returns loops on in that case)
KeepaliveWriteFails(n) ==
    /\ ka[n].pc = "drain"
    /\ ~ka[n].cancel
    /\ ka'[n].pc = "done"
    /\ connected
    /\ writer # 0

\* the step is a step of the reader task of some connection
IsReaderStep == \E n \in Conns : rd[n].pc \in {"init", "read"} /\ rd'[n].pc # rd[n].pc

\* the step is the except clause of a start()
IsStartFailure == result' = Outcome("start", "ConnectionFailed")

C19_KeepaliveFailureLocal ==
    [][/\ \A n \in Conns :
            KeepaliveWriteFails(n) =>
                /\ connected'
                /\ UNCHANGED <<reader, writer, keepalive_task, connection_task, rd, conn,
                               wire, message_log, stats>>
       /\ (connected /\ ~connected') => (IsReaderStep \/ IsStopCall \/ IsStartFailure)
      ]_vars

\* C19 witness: the sender has failed on a lost connection and the session is
\* still up with its reader waiting for data
C19_Witness ==
    \E n \in Conns :
        /\ ka[n].pc = "done"
        /\ conn[n] = "failed"
        /\ connected
        /\ writer = n
        /\ rd[n].pc = "read"
        /\ ~rd[n].cancel
        /\ Len(wire[n]) = 2

(***************************************************************************)
(* C20: there is no automatic reconnect or retry. Once the session is Idle *)
(* again (after a failed connect, a peer close or a stop()), connected     *)
(* stays false and no TCP connect is attempted except by a start() call;   *)
(* a connect is only ever begun by a start() call and only a connect begun *)
(* that way sets connected.                                                *)
(***************************************************************************)
\* the step begins a TCP connect
ConnectAttempted == \E c \in Calls : call[c].pc # "connect" /\ call'[c].pc = "connect"

\* the step is the connect of a start() call succeeding
ConnectCompleted == \E c \in Calls : call[c].pc = "connect" /\ call'[c].pc = "drain"

C20_NoAutomaticReconnect ==
    [][/\ Idle => ~connected'
       /\ ConnectAttempted => IsStartCall
       /\ (~connected /\ connected') => ConnectCompleted
       /\ conn' # conn /\ (\E n \in Conns : conn[n] = "free" /\ conn'[n] # "free")
              => ConnectCompleted
      ]_vars

\* C20 witness: the peer closed an established session, the manager is Idle
\* with both tasks over, and a later status query still reports no session
C20_Witness ==
    /\ eof_seen
    /\ Idle
    /\ TasksOver
    /\ NoCallInFlight
    /\ result = Outcome("get_connection_status", "connected=false")
    /\ \E n \in Conns : conn[n] \notin {"free", "open"}

(***************************************************************************)
(* C21: the counters of Stats never decrease over any sequence of          *)
(* operations, stop() and a new start() included. A step that appends a    *)
(* message to the log adds 1 to exactly one direction counter and 1 to at  *)
(* most one per-type counter; a step that logs the sentinel (the decoded   *)
(* form of a sent frame) and any other step change neither the log nor a   *)
(* counter.                                                                *)
(***************************************************************************)
DirectionCounters == {"total_messages_sent", "total_messages_received"}

TypeCounters == {"open_messages", "keepalive_messages", "update_messages",
                 "notification_messages"}

\* the counters of set S that the step raised by exactly one
RaisedByOne(S) == {f \in S : stats'[f] = stats[f] + 1}

\* the step appended one message to the log
Appended == Len(message_log') = Len(message_log) + 1
            /\ SubSeq(message_log', 1, Len(message_log)) = message_log

C21_CountersMonotonic ==
    [][/\ \A f \in DirectionCounters \cup TypeCounters : stats'[f] >= stats[f]
       /\ IF message_log' # message_log
          THEN /\ Appended
               /\ Cardinality(RaisedByOne(DirectionCounters)) = 1
               /\ Cardinality(RaisedByOne(TypeCounters)) <= 1
               /\ \A f \in DirectionCounters \cup TypeCounters :
                      stats'[f] \in {stats[f], stats[f] + 1}
          ELSE stats' = stats
       /\ (StartReturnsConnected \/ \E n \in Conns : KeepaliveSent(n))
              => UNCHANGED <<message_log, stats>>
      ]_vars

(***************************************************************************)
(* C22: for every received byte sequence shorter than 19 bytes, and for    *)
(* every frame of at least 19 bytes in which one of the 16 marker bytes    *)
(* differs from 0xFF, the decode does not fault and yields an Unknown      *)
(* message; in the marker case the reason names an invalid marker.         *)
(***************************************************************************)
ShorterThanHeader(data) == Len(data) < 19

MarkerDamaged(data) == Len(data) >= 19 /\ \E i \in 1..16 : data[i] # 255

C22_ShortOrBadMarkerIsUnknown ==
    Decoded =>
        /\ (ShorterThanHeader(rx) \/ MarkerDamaged(rx)) => decoded.cls = "Unknown"
        /\ MarkerDamaged(rx) => decoded.details = "Invalid marker"

\* C22 witness: an OPEN frame with a changed marker byte has been decoded to
\* an Unknown message
C22_Witness ==
    /\ Decoded
    /\ MarkerDamaged(rx)
    /\ rx[19] = 1
    /\ Len(rx) >= OpenMinLen
    /\ decoded.cls = "Unknown"
    /\ decoded.raw_data = rx

(***************************************************************************)
(* C23: human_readable never raises: for every capability the decoder      *)
(* produces, entries whose declared length exceeds the value bytes present *)
(* included, it returns a string; for code 65 without exactly 4 value      *)
(* bytes the string says "invalid length", and for a code outside the      *)
(* table it says "Unknown capability".                                     *)
(***************************************************************************)
Humanized == result.op = "human_readable"

C23_HumanizeTotal ==
    Humanized =>
        \A i \in 1..Len(decoded.capabilities) :
            LET cap == decoded.capabilities[i]
                h   == result.outcome[i]
            IN  /\ ~h.raised
                /\ (cap.code = 65 /\ Len(cap.value) # 4)
                       => h.text = "Four-octet ASN (invalid length)"
                /\ cap.code \notin CapabilityCodes => h.text = "Unknown capability"

(***************************************************************************)
(* C24: an UPDATE frame whose prefixes can be rendered decodes to an       *)
(* Update message in which every withdrawn and NLRI prefix has exactly     *)
(* four octets, the first ceil(prefix_len/8) being the address bytes from  *)
(* the wire and the rest zero; a frame with a prefix length above 32, or   *)
(* with fewer address bytes than the prefix length requires, yields an     *)
(* Unknown message instead.                                                *)
(***************************************************************************)
\* the prefix list expected for at most one prefix on the wire
RenderedPrefixes(p) ==
    IF p = <<>> THEN <<>>
    ELSE <<JoinDots(Pack4s(Tail(p))) \o <<"/">> \o StrOfByte(p[1])>>

KeepaliveAlive(n) == ka[n].pc \in {"init", "sleep", "drain"} /\ ~ka[n].cancel

ReaderAlive(n) == rd[n].pc \in {"init", "read", "wait_closed"} /\ ~rd[n].cancel

C25_NoOrphanTask ==
    /\ Cardinality({n \in Conns : KeepaliveAlive(n)}) <= 1
    /\ Cardinality({n \in Conns : ReaderAlive(n)}) <= 1
    /\ \A n \in Conns : KeepaliveAlive(n) => keepalive_task = n
    /\ \A n \in Conns : ReaderAlive(n) => connection_task = n

(***************************************************************************)
(* C26: no socket is leaked: whenever the session is Idle and no start()   *)
(* or stop() is in progress, every TCP connection that start() opened has  *)
(* been closed and no writer handle is retained, also when start() failed  *)
(* after the connect succeeded and when the reader task ran the teardown.  *)
(***************************************************************************)
\* the connection was opened and close() was never called on it, nor was it
\* lost
StillOpen(n) == conn[n] \in {"open", "eof"}

C26_NoSocketLeak ==
    (Idle /\ NoCallInFlight) =>
        /\ writer = 0
        /\ \A n \in Conns : ~StillOpen(n)

(***************************************************************************)
(* C27: on every TCP connection the first frame written is the OPEN frame: *)
(* no KEEPALIVE is written on a connection before that connection's OPEN,  *)
(* under any interleaving of start(), stop() and the keepalive sender.     *)
(***************************************************************************)
OpenType == build_open_message(DefaultConfig)[19]

KeepaliveType == build_keepalive_message[19]

C27_OpenIsFirstFrame ==
    \A n \in Conns :
        /\ wire[n] # <<>> => wire[n][1] = OpenType
        /\ \A i \in 2..Len(wire[n]) : wire[n][i] = KeepaliveType
        /\ conn[n] # "free" => wire[n] # <<>>

\* C27 witness: two start() calls overlapped, and the keepalive task of the
\* first connection has written its KEEPALIVE on the second connection, after
\* that connection's OPEN
C27_Witness ==
    \E n, m \in Conns :
        /\ n # m
        /\ wire[n] = <<OpenType>>
        /\ wire[m] = <<OpenType, KeepaliveType>>
        /\ ka[n].pc = "drain"
        /\ ka[n].ref = m

====
